---- MODULE Spec2Model ----
(***************************************************************************)
(* org-web: the XMPP agenda bot (xmpp_bot.py, class CommandBot) and the    *)
(* outline locator (utils.py, find_heading_in_content).                    *)
(*                                                                         *)
(* Time is counted in whole minutes since 00:00 of day 0.  Every handler   *)
(* and every loop iteration of the bot runs on one asyncio event loop and  *)
(* contains no suspension point other than its final sleep, so each is one *)
(* atomic action.                                                          *)
(***************************************************************************)
EXTENDS Integers, Sequences, FiniteSets, Bags, TLC

VARIABLES
    now,                 \* datetime.now(), minutes since day 0 00:00
    whitelist,           \* self.whitelist
    subscribers,         \* self.subscribers
    notification_start,  \* self.notification_start, minute of the day
    notification_end,    \* self.notification_end, minute of the day
    sent_notifications,  \* self.sent_notifications
    last_agenda_sent,    \* self.last_agenda_sent, None or a time
    loop,                \* self.loop is set (TRUE) or None (FALSE)
    agendaTask,          \* periodic_agenda_notifications tasks: wake-up times
    watchTask,           \* schedule_deadline_notifications tasks: wake-up times
    testTask,            \* send_test_notification_delayed tasks
    dir,                 \* the org directory: per file, its one heading
    inputs,              \* what reached the bot from outside so far: session
                         \* starts, commands and file edits that changed
                         \* something, extraction errors and failed sends
    ev,                  \* what the last loop iteration or delayed send did
    sendCount,           \* bag of everything broadcast so far
    prevAgendaAt,        \* time of the agenda broadcast before the last one
    boot,                \* the time the bot was constructed
    seconds,             \* ladder: seconds until the appointment
    picked,              \* ladder: the bucket key chosen for `seconds`
    doc,                 \* outline: the document text, a sequence of characters
    found,               \* outline: the last find_heading_in_content call
    edit,                \* outline: the last replace or insert call
    folder,              \* extraction: the org files of the directory
    scan                 \* extraction: the last run of the two extractions

botVars == <<now, whitelist, subscribers, notification_start, notification_end,
             sent_notifications, last_agenda_sent, loop, agendaTask, watchTask,
             testTask, dir, inputs, ev, sendCount, prevAgendaAt, boot>>
ladderVars == <<seconds, picked>>
outlineVars == <<doc, found, edit>>
scanVars == <<folder, scan>>
vars == <<botVars, ladderVars, outlineVars, scanVars>>

----------------------------------------------------------------------------
(* Bounds of the model *)

MaxInputs == 3       \* session starts, state-changing commands, file edits,
                     \* extraction errors and failed sends
MaxElapsed == 150    \* minutes the bot is followed after its start
MaxDayInputs == 2    \* session starts and file edits in the several-day runs
MaxElapsedDays == 1530  \* minutes the bot is followed in the several-day runs
LadderMargin == 120  \* seconds outside [0, 120 min] that the ladder is tried on
MaxLines == 3        \* lines of an outline document
MaxEditLines == 3    \* lines of a document that is edited
MaxFiles == 2        \* org files in the directory that is extracted
MaxNodes == 2        \* headings in the files of that directory, all together

(* Program constants, in minutes *)

AgendaSleep == 30
WatchSleep == 15
Backoff == 1
TestDelay == 1
agenda_interval == 2

DayMinutes == 24 * 60
DefaultStart == 8 * 60
DefaultEnd == 22 * 60
ScheduleClock == 9 * 60
DeadlineClock == 23 * 60 + 59

None == 0 - 1
Dead == 0 - 2
Malformed == 0 - 3

JIDs == {"ann", "bob", "eve"}
Files == <<"f.org", "g.org">>
Titles == {"A", "B"}
Days == {0, 1}
DayIso == <<"2024-01-01", "2024-01-02", "2024-01-03">>
StartTimes == {6 * 60 + 45, 15 * 60 + 44}
\* the two arguments of /notifications: HH:MM values, or a malformed string
NotifArgs ==
    {<<7 * 60, 22 * 60>>, <<22 * 60, 7 * 60>>, <<9 * 60, Malformed>>, <<Malformed, 21 * 60>>}

NoEvent == [op |-> "none", task |-> 0, at |-> 0, inWindow |-> FALSE,
            extracted |-> FALSE, err |-> FALSE, casts |-> <<>>]

----------------------------------------------------------------------------
(* The org directory as the agenda extraction sees it *)

Today(t) == t \div DayMinutes
TimeOfDay(t) == t % DayMinutes

\* parse_org_agenda_items: the items whose SCHEDULED / DEADLINE date is today
ItemOf(d, i) ==
    [title |-> d[i].title, file_name |-> Files[i],
     scheduled |-> d[i].scheduled, deadline |-> d[i].deadline]

RECURSIVE SelectItems(_, _, _, _)
SelectItems(d, today, field, i) ==
    IF i > Len(Files) THEN <<>>
    ELSE LET rest == SelectItems(d, today, field, i + 1)
             date == IF field = "scheduled" THEN d[i].scheduled ELSE d[i].deadline
         IN IF date # None /\ date = today
            THEN <<ItemOf(d, i)>> \o rest
            ELSE rest

parse_org_agenda_items(d, today) ==
    [schedules_today |-> SelectItems(d, today, "scheduled", 1),
     deadlines_today |-> SelectItems(d, today, "deadline", 1)]

----------------------------------------------------------------------------
(* Notification keys: the f-strings of check_*_notifications, as token     *)
(* sequences joined by "_"                                                 *)

ScheduleId(item, day) ==
    <<"schedule", "_", item.file_name, "_", item.title, "_", DayIso[day + 1], "T09:00:00">>

DeadlineId_stamped(item, day) ==
    <<"deadline", "_", item.file_name, "_", item.title, "_", ToString(now)>>

DeadlineId(item, day) ==
    <<"deadline", "_", item.file_name, "_", item.title, "_", DayIso[day + 1]>>

KeyOf(id, bucket) == id \o <<"_", bucket>>

\* the if / elif ladder of check_schedule_notifications; s is
\* time_diff.total_seconds(), so total_minutes = s / 60
In2h(s) == 90 * 60 <= s /\ s <= 120 * 60
In90m_closed(s) == 60 * 60 <= s /\ s <= 90 * 60
In90m(s) == 60 * 60 <= s /\ s < 90 * 60
In1h(s) == 45 * 60 <= s /\ s < 60 * 60
In45m_open(s) == 30 * 60 < s /\ s < 45 * 60
In45m(s) == 30 * 60 <= s /\ s < 45 * 60
In30m(s) == 15 * 60 <= s /\ s < 30 * 60
In15m(s) == 0 <= s /\ s < 15 * 60

ScheduleBucket(s) ==
    IF In2h(s) THEN "2h"
    ELSE IF In90m(s) THEN "90m"
    ELSE IF In1h(s) THEN "1h"
    ELSE IF In45m(s) THEN "45m"
    ELSE IF In30m(s) THEN "30m"
    ELSE IF In15m(s) THEN "15m"
    ELSE "none"

\* 6 <= total_hours <= 8, with total_hours = s / 3600
DeadlineBucket(s) == IF 6 * 3600 <= s /\ s <= 8 * 3600 THEN "today" ELSE "none"

is_notification_time_overnight(t, ws, we) ==
    IF ws <= we THEN ws <= TimeOfDay(t) /\ TimeOfDay(t) <= we
    ELSE ws <= TimeOfDay(t) \/ TimeOfDay(t) <= we

is_notification_time(t, ws, we) == ws <= TimeOfDay(t) /\ TimeOfDay(t) <= we

----------------------------------------------------------------------------
(* send_notification_to_subscribers: the for loop over self.subscribers    *)
(* in the set's iteration order, inside one try: the send to `bad` raises, *)
(* which ends the loop; the exception is logged and swallowed.             *)

NoOne == "-"

\* the orders a set can be iterated in
Orders(S) == {o \in [1..Cardinality(S) -> S] : \A a, b \in DOMAIN o : o[a] = o[b] => a = b}

RECURSIVE SentBefore(_, _)
SentBefore(order, bad) ==
    IF order = <<>> \/ Head(order) = bad THEN {}
    ELSE {Head(order)} \cup SentBefore(Tail(order), bad)

send_notification_to_subscribers(order, bad) == SentBefore(order, bad)

\* one broadcast: what was sent, to which subscriber set, who got it and
\* whose send raised
Cast(key, kind, item, date, bucket, subs, dlv) ==
    [key |-> key, kind |-> kind, file |-> item.file_name, title |-> item.title,
     date |-> date, bucket |-> bucket, to |-> subs,
     got |-> send_notification_to_subscribers(dlv.order, dlv.bad), bad |-> dlv.bad]

NoItem == [file_name |-> "", title |-> ""]

\* what sendCount counts of a broadcast
Sent(c) == [key |-> c.key, kind |-> c.kind, file |-> c.file, title |-> c.title,
            date |-> c.date, bucket |-> c.bucket]

\* the membership test that guards a threshold broadcast
AlreadySent_never(key, sent) == FALSE
AlreadySent(key, sent) == key \in sent

\* one check_*_notifications call; st is [sent, casts]
CheckOne_delivered(st, c) ==
    IF c.bucket = "none" \/ AlreadySent(c.key, st.sent) THEN st
    ELSE [sent |-> IF c.got = {} THEN st.sent ELSE st.sent \cup {c.key},
          casts |-> Append(st.casts, c)]

CheckOne(st, c) ==
    IF c.bucket = "none" \/ AlreadySent(c.key, st.sent) THEN st
    ELSE [sent |-> st.sent \cup {c.key}, casts |-> Append(st.casts, c)]

\* datetime.combine(item["scheduled"], time(9, 0))
scheduled_datetime_10am(item) == item.scheduled * DayMinutes + 10 * 60
scheduled_datetime(item) == item.scheduled * DayMinutes + ScheduleClock

check_schedule_notifications(st, item, t, subs, dlv) ==
    LET time_diff == scheduled_datetime(item) - t
        bucket == ScheduleBucket(time_diff * 60)
        notification_id == ScheduleId(item, item.scheduled)
    IN CheckOne(st, Cast(KeyOf(notification_id, bucket), "schedule", item,
                         item.scheduled, bucket, subs, dlv))

check_deadline_notifications(st, item, t, subs, dlv) ==
    LET time_diff == (item.deadline * DayMinutes + DeadlineClock) - t
        bucket == DeadlineBucket(time_diff * 60)
        notification_id == DeadlineId(item, item.deadline)
    IN CheckOne(st, Cast(KeyOf(notification_id, bucket), "deadline", item,
                         item.deadline, bucket, subs, dlv))

RECURSIVE CheckSchedules(_, _, _, _, _)
CheckSchedules(st, items, t, subs, dlv) ==
    IF items = <<>> THEN st
    ELSE CheckSchedules(check_schedule_notifications(st, Head(items), t, subs, dlv),
                        Tail(items), t, subs, dlv)

RECURSIVE CheckDeadlines(_, _, _, _, _)
CheckDeadlines(st, items, t, subs, dlv) ==
    IF items = <<>> THEN st
    ELSE CheckDeadlines(check_deadline_notifications(st, Head(items), t, subs, dlv),
                        Tail(items), t, subs, dlv)

RECURSIVE CountCasts(_, _)
CountCasts(bag, casts) ==
    IF casts = <<>> THEN bag
    ELSE CountCasts(bag (+) SetToBag({Sent(Head(casts))}), Tail(casts))

\* the iteration order of self.subscribers and the subscriber, if any, whose
\* send raises
Delivery(dlv) ==
    /\ dlv.order \in Orders(subscribers)
    /\ dlv.bad \in subscribers \cup {NoOne}
    /\ dlv.bad # NoOne => inputs < MaxInputs

Smooth(dlv) == dlv.bad = NoOne /\ dlv.order = CHOOSE o \in Orders(subscribers) : TRUE

Deliveries ==
    {[order |-> o, bad |-> b] : o \in Orders(subscribers), b \in subscribers \cup {NoOne}}

SmoothDelivery == CHOOSE dlv \in Deliveries : Smooth(dlv)

InputsAfter(err, failed) == IF err \/ failed THEN inputs + 1 ELSE inputs

----------------------------------------------------------------------------
(* Init: the state after CommandBot.__init__ *)

IdleLadder ==
    /\ seconds = 0
    /\ picked = "unset"

NoEdit ==
    [op |-> "none", content |-> <<>>, label |-> <<>>, plevel |-> 0, new |-> <<>>,
     body |-> <<>>, level |-> 0, out |-> <<>>]

IdleOutline ==
    /\ doc = <<>>
    /\ edit = NoEdit
    /\ folder = <<>>
    /\ scan = [ran |-> FALSE]
    /\ found = [called |-> FALSE, content |-> <<>>, label |-> <<>>, level |-> 0,
                res |-> <<>>]

BotFields ==
    /\ whitelist = {"ann", "bob"}
    /\ subscribers = {"ann"}
    /\ notification_start = DefaultStart
    /\ notification_end = DefaultEnd
    /\ sent_notifications = {}
    /\ last_agenda_sent = None
    /\ loop = FALSE
    /\ agendaTask = <<>>
    /\ watchTask = <<>>
    /\ testTask = <<>>
    /\ dir = [i \in 1..Len(Files) |->
                [title |-> "A", scheduled |-> 0, deadline |-> 0]]
    /\ inputs = 0
    /\ ev = NoEvent
    /\ sendCount = EmptyBag
    /\ prevAgendaAt = None
    /\ boot = now

InitBot == now \in StartTimes /\ BotFields

\* the bot left alone while a pure function is tried
IdleBot == now = DefaultStart /\ BotFields

Init == InitBot /\ IdleLadder /\ IdleOutline

----------------------------------------------------------------------------
(* session_start: a new pair of loop tasks, ready to run at once *)

Spend(limit) == inputs < limit /\ inputs' = inputs + 1

\* loop.create_task: one more task on the event loop, next to those it runs
Spawn_replace(tasks, t) == <<t>>
Spawn(tasks, t) == Append(tasks, t)

session_start(limit) ==
    /\ Spend(limit)
    /\ loop' = TRUE
    /\ agendaTask' = Spawn(agendaTask, now)
    /\ watchTask' = Spawn(watchTask, now)
    /\ UNCHANGED <<now, whitelist, subscribers, notification_start, notification_end,
                   sent_notifications, last_agenda_sent, testTask, dir, ev, sendCount,
                   prevAgendaAt, boot, ladderVars, outlineVars, scanVars>>

----------------------------------------------------------------------------
(* message: the whitelist check, then handle_command.  A command that      *)
(* changes the bot's state counts as an input.                             *)

is_whitelisted_orempty(jid) == whitelist = {} \/ jid \in whitelist
is_whitelisted(jid) == jid \in whitelist

msgFrame == <<now, sent_notifications, last_agenda_sent, loop, agendaTask, watchTask,
              dir, ev, sendCount, prevAgendaAt, boot, ladderVars, outlineVars, scanVars>>

Input == Spend(MaxInputs)

\* a sender outside the whitelist: the reply "Access denied", and return
AccessDenied(sender) ==
    /\ ~is_whitelisted(sender)
    /\ UNCHANGED <<msgFrame, inputs, whitelist, subscribers, notification_start,
                   notification_end, testTask>>

\* /ping, /help, /time, /status, /agenda, unknown commands and plain text:
\* a reply and no change of state
cmd_ping(sender) ==
    /\ is_whitelisted(sender)
    /\ UNCHANGED <<msgFrame, inputs, whitelist, subscribers, notification_start,
                   notification_end, testTask>>

cmd_subscribe(sender) ==
    /\ is_whitelisted(sender)
    /\ sender \notin subscribers
    /\ subscribers' = subscribers \cup {sender}
    /\ Input
    /\ UNCHANGED <<msgFrame, whitelist, notification_start, notification_end, testTask>>

cmd_unsubscribe(sender) ==
    /\ is_whitelisted(sender)
    /\ sender \in subscribers
    /\ subscribers' = subscribers \ {sender}
    /\ Input
    /\ UNCHANGED <<msgFrame, whitelist, notification_start, notification_end, testTask>>

\* /notifications a1 a2: strptime of both arguments, then both assignments;
\* a ValueError of either leaves both as they were
cmd_notifications(sender, a1, a2) ==
    /\ is_whitelisted(sender)
    /\ IF a1 # Malformed /\ a2 # Malformed
       THEN /\ notification_start' = a1
            /\ notification_end' = a2
            /\ Input
       ELSE UNCHANGED <<notification_start, notification_end, inputs>>
    /\ UNCHANGED <<msgFrame, whitelist, subscribers, testTask>>

\* /test-notification: a delayed task, created only for a subscriber and only
\* once self.loop is set
cmd_test_notification(sender) ==
    /\ is_whitelisted(sender)
    /\ sender \in subscribers
    /\ loop
    /\ testTask' = Append(testTask, [wake |-> now + TestDelay, by |-> sender,
                                     then |-> subscribers])
    /\ Input
    /\ UNCHANGED <<msgFrame, whitelist, subscribers, notification_start, notification_end>>

----------------------------------------------------------------------------
(* The org files change under the bot *)

editFrame == <<now, whitelist, subscribers, notification_start, notification_end,
               sent_notifications, last_agenda_sent, loop, agendaTask, watchTask,
               testTask, ev, sendCount, prevAgendaAt, boot, ladderVars, outlineVars, scanVars>>

\* the heading of f.org is renamed
EditTitle(title, limit) ==
    /\ dir[1].title # title
    /\ Spend(limit)
    /\ dir' = [dir EXCEPT ![1].title = title]
    /\ UNCHANGED editFrame

\* the heading of f.org gets new SCHEDULED and DEADLINE dates
Reschedule(day, limit) ==
    /\ dir[1].scheduled # day
    /\ Spend(limit)
    /\ dir' = [dir EXCEPT ![1].scheduled = day, ![1].deadline = day]
    /\ UNCHANGED editFrame

----------------------------------------------------------------------------
(* periodic_agenda_notifications: one iteration of the while loop *)

AgendaDue_always(t, last) == TRUE
AgendaDue(t, last) == last = None \/ t - last >= agenda_interval * 60

\* except Exception: log, sleep(60), go round the loop again
AgendaAfterError(t) == t + Backoff
WatchAfterError_dies(t) == Dead
WatchAfterError(t) == t + Backoff

Polled(op, i, inw, extracted, err, casts) ==
    [op |-> op, task |-> i, at |-> now, inWindow |-> inw,
     extracted |-> extracted, err |-> err, casts |-> casts]

AgendaCast(dlv) == Cast(<<"agenda">>, "agenda", NoItem, None, "", subscribers, dlv)

AgendaPoll(i, err, dlv) ==
    /\ i \in 1..Len(agendaTask)
    /\ agendaTask[i] = now
    /\ Delivery(dlv)
    /\ err => inputs < MaxInputs
    /\ LET inw == is_notification_time(now, notification_start, notification_end)
           send == inw /\ AgendaDue(now, last_agenda_sent)
       IN IF send /\ ~err
          THEN /\ last_agenda_sent' = now
               /\ prevAgendaAt' = last_agenda_sent
               /\ sendCount' = CountCasts(sendCount, <<AgendaCast(dlv)>>)
               /\ agendaTask' = [agendaTask EXCEPT ![i] = now + AgendaSleep]
               /\ inputs' = InputsAfter(FALSE, dlv.bad # NoOne)
               /\ ev' = Polled("agenda", i, inw, TRUE, FALSE, <<AgendaCast(dlv)>>)
          ELSE /\ Smooth(dlv)
               /\ err => send
               /\ agendaTask' = [agendaTask EXCEPT ![i] =
                                    IF err THEN AgendaAfterError(now)
                                    ELSE now + AgendaSleep]
               /\ inputs' = InputsAfter(err, FALSE)
               /\ ev' = Polled("agenda", i, inw, send, err, <<>>)
               /\ UNCHANGED <<last_agenda_sent, prevAgendaAt, sendCount>>
    /\ UNCHANGED <<now, whitelist, subscribers, notification_start, notification_end,
                   sent_notifications, loop, watchTask, testTask, dir, boot,
                   ladderVars, outlineVars, scanVars>>

----------------------------------------------------------------------------
(* schedule_deadline_notifications: one iteration of the while loop *)

\* the window test that guards the extraction of the threshold watch
WatchGate_open(t, ws, we) == TRUE
WatchGate(t, ws, we) == is_notification_time(t, ws, we)

WatchPoll(i, err, dlv) ==
    /\ i \in 1..Len(watchTask)
    /\ watchTask[i] = now
    /\ Delivery(dlv)
    /\ err => inputs < MaxInputs
    /\ LET inw == WatchGate(now, notification_start, notification_end)
           agenda == parse_org_agenda_items(dir, Today(now))
           st0 == [sent |-> sent_notifications, casts |-> <<>>]
           st1 == CheckSchedules(st0, agenda.schedules_today, now, subscribers, dlv)
           st2 == CheckDeadlines(st1, agenda.deadlines_today, now, subscribers, dlv)
       IN IF inw /\ ~err
          THEN /\ st2.casts = <<>> => Smooth(dlv)
               /\ sent_notifications' = st2.sent
               /\ sendCount' = CountCasts(sendCount, st2.casts)
               /\ watchTask' = [watchTask EXCEPT ![i] = now + WatchSleep]
               /\ inputs' = InputsAfter(FALSE, dlv.bad # NoOne)
               /\ ev' = Polled("watch", i, inw, TRUE, FALSE, st2.casts)
          ELSE /\ Smooth(dlv)
               /\ err => inw
               /\ watchTask' = [watchTask EXCEPT ![i] =
                                   IF err THEN WatchAfterError(now)
                                   ELSE now + WatchSleep]
               /\ inputs' = InputsAfter(err, FALSE)
               /\ ev' = Polled("watch", i, inw, inw, err, <<>>)
               /\ UNCHANGED <<sent_notifications, sendCount>>
    /\ UNCHANGED <<now, whitelist, subscribers, notification_start, notification_end,
                   last_agenda_sent, loop, agendaTask, testTask, dir, prevAgendaAt,
                   boot, ladderVars, outlineVars, scanVars>>

----------------------------------------------------------------------------
(* send_test_notification_delayed, after its sleep(60): the task then ends *)

TestCast(dlv) == Cast(<<"test">>, "test", NoItem, None, "", subscribers, dlv)

TestFire(k, err, dlv) ==
    /\ k \in 1..Len(testTask)
    /\ testTask[k].wake = now
    /\ Delivery(dlv)
    /\ err => inputs < MaxInputs /\ Smooth(dlv)
    /\ testTask' = [testTask EXCEPT ![k].wake = Dead]
    /\ inputs' = InputsAfter(err, dlv.bad # NoOne)
    /\ sendCount' = IF err THEN sendCount ELSE CountCasts(sendCount, <<TestCast(dlv)>>)
    /\ ev' = Polled("test", k, TRUE, TRUE, err, IF err THEN <<>> ELSE <<TestCast(dlv)>>)
    /\ UNCHANGED <<now, whitelist, subscribers, notification_start, notification_end,
                   sent_notifications, last_agenda_sent, loop, agendaTask, watchTask,
                   dir, prevAgendaAt, boot, ladderVars, outlineVars, scanVars>>

----------------------------------------------------------------------------
(* Time passes until the next sleeping task wakes up *)

Wakes ==
    {agendaTask[i] : i \in 1..Len(agendaTask)}
    \cup {watchTask[i] : i \in 1..Len(watchTask)}
    \cup {testTask[k].wake : k \in 1..Len(testTask)}

Sleeping == {w \in Wakes : w >= 0}

Earliest(S) == CHOOSE w \in S : \A v \in S : w <= v

Tick(limit) ==
    /\ Sleeping # {}
    /\ \A w \in Sleeping : w > now
    /\ Earliest(Sleeping) - boot <= limit
    /\ now' = Earliest(Sleeping)
    /\ UNCHANGED <<whitelist, subscribers, notification_start, notification_end,
                   sent_notifications, last_agenda_sent, loop, agendaTask, watchTask,
                   testTask, dir, inputs, ev, sendCount, prevAgendaAt, boot,
                   ladderVars, outlineVars, scanVars>>

----------------------------------------------------------------------------
(* The bot over some hours: commands, title edits, failures *)

Next ==
    \/ session_start(MaxInputs)
    \/ \E s \in JIDs : AccessDenied(s)
    \/ \E s \in JIDs : cmd_ping(s)
    \/ \E s \in JIDs : cmd_subscribe(s)
    \/ \E s \in JIDs : cmd_unsubscribe(s)
    \/ \E s \in JIDs, a \in NotifArgs : cmd_notifications(s, a[1], a[2])
    \/ \E s \in JIDs : cmd_test_notification(s)
    \/ \E t \in Titles : EditTitle(t, MaxInputs)
    \/ \E i \in DOMAIN agendaTask, err \in BOOLEAN, dlv \in Deliveries : AgendaPoll(i, err, dlv)
    \/ \E i \in DOMAIN watchTask, err \in BOOLEAN, dlv \in Deliveries : WatchPoll(i, err, dlv)
    \/ \E k \in DOMAIN testTask, err \in BOOLEAN, dlv \in Deliveries : TestFire(k, err, dlv)
    \/ Tick(MaxElapsed)

Spec == Init /\ [][Next]_vars

(* The bot over more than a day: the loops and reschedulings only *)

NextDays ==
    \/ session_start(MaxDayInputs)
    \/ \E d \in Days : Reschedule(d, MaxDayInputs)
    \/ \E t \in Titles : EditTitle(t, MaxDayInputs)
    \/ \E i \in DOMAIN agendaTask : AgendaPoll(i, FALSE, SmoothDelivery)
    \/ \E i \in DOMAIN watchTask : WatchPoll(i, FALSE, SmoothDelivery)
    \/ Tick(MaxElapsedDays)

SpecDays == Init /\ [][NextDays]_vars

----------------------------------------------------------------------------
(* The bucket ladder of check_schedule_notifications on its own: every     *)
(* number of seconds from LadderMargin before the appointment to           *)
(* LadderMargin more than two hours ahead of it                            *)

InitLadder ==
    /\ IdleBot
    /\ IdleOutline
    /\ seconds \in (0 - LadderMargin)..(120 * 60 + LadderMargin)
    /\ picked = "unset"

PickBucket ==
    /\ picked = "unset"
    /\ picked' = ScheduleBucket(seconds)
    /\ UNCHANGED <<seconds, botVars, outlineVars, scanVars>>

NextLadder == PickBucket

SpecLadder == InitLadder /\ [][NextLadder]_vars

----------------------------------------------------------------------------
(* The outline locator, utils.find_heading_in_content.  A text is a        *)
(* sequence of characters, a line a sequence of characters without "\n".   *)

Whitespace == {" ", "\t"}

LinePool ==
    { <<"*", " ", "a">>,
      <<"*", "*", " ", "a">>,
      <<"*", " ", "b">>,
      <<"*", "*", "*", " ", "b">>,
      <<"a">>,
      <<>>,
      <<"*", "\t", " ", "a", " ">>,
      <<"*", "a">>,
      <<"*", " ", " ">> }

Labels == { <<"a">>, <<"b">>, <<>> }
Levels == 0..3

NotFound == <<>>
NoCall == [called |-> FALSE, content |-> <<>>, label |-> <<>>, level |-> 0, res |-> <<>>]

\* content.split("\n")
RECURSIVE SplitLines(_)
SplitLines(text) ==
    IF text = <<>> THEN << <<>> >>
    ELSE LET rest == SplitLines(Tail(text))
         IN IF Head(text) = "\n"
            THEN << <<>> >> \o rest
            ELSE << <<Head(text)>> \o Head(rest) >> \o Tail(rest)

\* group(1) of ^(\*+)\s+(.+)$ : the run of markers the line starts with
RECURSIVE StarRun(_)
StarRun(line) ==
    IF line = <<>> \/ Head(line) # "*" THEN 0 ELSE 1 + StarRun(Tail(line))

AfterStars(line) == SubSeq(line, StarRun(line) + 1, Len(line))

\* re.match(heading_pattern, line): markers, then whitespace, then at least
\* one more character
MatchHeading(line) ==
    /\ StarRun(line) >= 1
    /\ Len(AfterStars(line)) >= 2
    /\ AfterStars(line)[1] \in Whitespace

\* str.strip()
RECURSIVE LStrip(_)
LStrip(s) == IF s # <<>> /\ Head(s) \in Whitespace THEN LStrip(Tail(s)) ELSE s

RECURSIVE RStrip(_)
RStrip(s) ==
    IF s # <<>> /\ s[Len(s)] \in Whitespace THEN RStrip(SubSeq(s, 1, Len(s) - 1)) ELSE s

Strip(s) == RStrip(LStrip(s))

\* match.group(2).strip()
HeadingText(line) == Strip(AfterStars(line))

\* the inner for loop: the first heading after the match with at most as
\* many markers; lines are numbered from 0 as in the code
EndsSpan_strict(line, stars) == MatchHeading(line) /\ StarRun(line) < stars
EndsSpan(line, stars) == MatchHeading(line) /\ StarRun(line) <= stars

RECURSIVE EndLine(_, _, _)
EndLine(lines, stars, j) ==
    IF j >= Len(lines) THEN Len(lines)
    ELSE IF EndsSpan(lines[j + 1], stars) THEN j
    ELSE EndLine(lines, stars, j + 1)

\* stars == target_stars and heading_text == target_heading
IsTarget_anylevel(line, target_heading, level) ==
    MatchHeading(line) /\ HeadingText(line) = target_heading

IsTarget(line, target_heading, level) ==
    /\ MatchHeading(line)
    /\ StarRun(line) = level
    /\ HeadingText(line) = target_heading

RECURSIVE FindFrom(_, _, _, _)
FindFrom(lines, target_heading, level, i) ==
    IF i >= Len(lines) THEN NotFound
    ELSE IF IsTarget(lines[i + 1], target_heading, level)
    THEN <<i, EndLine(lines, StarRun(lines[i + 1]), i + 1)>>
    ELSE FindFrom(lines, target_heading, level, i + 1)

find_heading_in_content(content, target_heading, level) ==
    FindFrom(SplitLines(content), target_heading, level, 0)

InitOutline ==
    /\ IdleBot
    /\ IdleLadder
    /\ doc \in LinePool
    /\ found = NoCall
    /\ edit = NoEdit
    /\ folder = <<>>
    /\ scan = [ran |-> FALSE]

\* the file grows by one line
AppendLine(line) ==
    /\ Len(SplitLines(doc)) < MaxLines
    /\ doc' = doc \o <<"\n">> \o line
    /\ found' = NoCall
    /\ UNCHANGED <<edit, botVars, ladderVars, scanVars>>

Locate(label, level) ==
    /\ found' = [called |-> TRUE, content |-> doc, label |-> label, level |-> level,
                 res |-> find_heading_in_content(doc, label, level)]
    /\ UNCHANGED <<doc, edit, botVars, ladderVars, scanVars>>

NextOutline ==
    \/ \E line \in LinePool : AppendLine(line)
    \/ \E label \in Labels, level \in Levels : Locate(label, level)

SpecOutline == InitOutline /\ [][NextOutline]_vars

----------------------------------------------------------------------------
(* The outline edits: utils.update_heading_in_content (replace) and        *)
(* main.add_heading_to_content (insert), on texts of up to MaxEditLines    *)
(* lines.                                                                   *)

EditPool ==
    { <<"*", " ", "A">>,
      <<"*", "*", " ", "B">>,
      <<"*", " ", "B">>,
      <<"A">>,
      <<>>,
      <<"*", " ", " ">> }

EditLabels == { <<"A">>, <<"B">>, <<>> }
NewLabels == { <<"B">>, <<>> }
EditLevels == 1..2
NewLevels == 1..3

Bodies ==
    { <<>>,
      <<" ">>,
      <<"x">>,
      <<"x", "\n", "*", " ", "A">> }

\* "\n".join(lines)
RECURSIVE Join(_)
Join(lines) ==
    IF lines = <<>> THEN <<>>
    ELSE IF Len(lines) = 1 THEN lines[1]
    ELSE lines[1] \o <<"\n">> \o Join(Tail(lines))

\* "*" * level
RECURSIVE Stars(_)
Stars(n) == IF n <= 0 THEN <<>> ELSE <<"*">> \o Stars(n - 1)

\* f"{stars} {new_heading}"
new_heading_line(level, new_heading) == Stars(level) \o <<" ">> \o new_heading

\* the truth value of text.strip(), for a text that may hold newlines
HasText(text) == \E n \in DOMAIN text : text[n] \notin Whitespace \cup {"\n"}

\* if new_content.strip(): append "" and the lines of new_content
BodyLines_noblank(new_content) ==
    IF HasText(new_content) THEN SplitLines(new_content) ELSE <<>>

BodyLines(new_content) ==
    IF HasText(new_content) THEN << <<>> >> \o SplitLines(new_content) ELSE <<>>

\* lines[a:b], lines numbered from 0
Slice(lines, a, b) == SubSeq(lines, a + 1, b)

update_heading_in_content(content, old_heading, new_heading, new_content, level) ==
    LET lines == SplitLines(content)
        heading_pos == find_heading_in_content(content, old_heading, level)
    IN IF heading_pos = NotFound THEN content
       ELSE Join(Slice(lines, 0, heading_pos[1])
                 \o <<new_heading_line(level, new_heading)>>
                 \o BodyLines(new_content)
                 \o Slice(lines, heading_pos[2], Len(lines)))

\* if new_lines and new_lines[-1].strip(): new_lines.append("")
Separator_always(new_lines) == << <<>> >>

Separator(new_lines) ==
    IF new_lines # <<>> /\ Strip(new_lines[Len(new_lines)]) # <<>>
    THEN << <<>> >> ELSE <<>>

InsertAt_overwrite(lines, insert_position, new_heading, new_content, new_level) ==
    Join(Slice(lines, 0, insert_position)
         \o <<new_heading_line(new_level, new_heading)>>
         \o Slice(lines, insert_position + 1, Len(lines)))

InsertAt(lines, insert_position, new_heading, new_content, new_level) ==
    Join(Slice(lines, 0, insert_position)
         \o Separator(Slice(lines, 0, insert_position))
         \o <<new_heading_line(new_level, new_heading)>>
         \o BodyLines(new_content)
         \o Slice(lines, insert_position, Len(lines)))

\* an empty parent_heading is the falsy one (add_heading passes None for it)
add_heading_to_content(content, parent_heading, parent_level, new_heading, new_content, new_level) ==
    LET lines == SplitLines(content)
        heading_pos == find_heading_in_content(content, parent_heading, parent_level)
    IN IF parent_heading # <<>>
       THEN IF heading_pos = NotFound THEN content
            ELSE InsertAt(lines, heading_pos[2], new_heading, new_content, new_level)
       ELSE InsertAt(lines, Len(lines), new_heading, new_content, new_level)

\* drop the blank lines at both ends
RECURSIVE DropBlankHead(_)
DropBlankHead(ls) ==
    IF ls # <<>> /\ Strip(Head(ls)) = <<>> THEN DropBlankHead(Tail(ls)) ELSE ls

RECURSIVE DropBlankTail(_)
DropBlankTail(ls) ==
    IF ls # <<>> /\ Strip(ls[Len(ls)]) = <<>>
    THEN DropBlankTail(SubSeq(ls, 1, Len(ls) - 1)) ELSE ls

get_heading_content(content, heading, level) ==
    LET heading_pos == find_heading_in_content(content, heading, level)
        lines == SplitLines(content)
    IN IF heading_pos = NotFound THEN <<>>
       ELSE IF heading_pos[2] > heading_pos[1] + 1
       THEN Join(DropBlankTail(DropBlankHead(
                     Slice(lines, heading_pos[1] + 1, heading_pos[2]))))
       ELSE <<>>

InitEdit ==
    /\ IdleBot
    /\ IdleLadder
    /\ doc \in EditPool
    /\ found = NoCall
    /\ edit = NoEdit
    /\ folder = <<>>
    /\ scan = [ran |-> FALSE]

\* the file grows by one line; one edit call is followed per document
GrowDoc(line) ==
    /\ edit = NoEdit
    /\ Len(SplitLines(doc)) < MaxEditLines
    /\ doc' = doc \o <<"\n">> \o line
    /\ edit' = NoEdit
    /\ UNCHANGED <<found, botVars, ladderVars, scanVars>>

Replace(old, new, body, level) ==
    /\ edit = NoEdit
    /\ edit' = [op |-> "replace", content |-> doc, label |-> old, plevel |-> 0,
                new |-> new, body |-> body, level |-> level,
                out |-> update_heading_in_content(doc, old, new, body, level)]
    /\ UNCHANGED <<doc, found, botVars, ladderVars, scanVars>>

add_heading(parent, plevel, new, body, level) ==
    /\ edit = NoEdit
    /\ edit' = [op |-> "insert", content |-> doc, label |-> parent,
                plevel |-> IF parent # <<>> THEN plevel ELSE 1,
                new |-> new, body |-> body, level |-> level,
                out |-> add_heading_to_content(
                            doc, parent, IF parent # <<>> THEN plevel ELSE 1,
                            new, body, level)]
    /\ UNCHANGED <<doc, found, botVars, ladderVars, scanVars>>

NextEdit ==
    \/ \E line \in EditPool : GrowDoc(line)
    \/ \E old \in EditLabels, new \in EditLabels, body \in Bodies, level \in EditLevels :
          Replace(old, new, body, level)
    \/ \E parent \in EditLabels, plevel \in EditLevels, new \in NewLabels,
          body \in Bodies, level \in NewLevels :
          add_heading(parent, plevel, new, body, level)

SpecEdit == InitEdit /\ [][NextEdit]_vars

----------------------------------------------------------------------------
(* The agenda extraction in detail: utils.parse_org_agenda_items and       *)
(* utils.parse_org_agenda_items_task_only over a directory of org files.   *)
(* A file name is a sequence of pieces ("__", "_", words, ".org"); a       *)
(* heading text is a sequence of words; a heading's body is the pair of    *)
(* its SCHEDULED and DEADLINE dates.                                        *)

FileNames ==
    { <<"n", ".org">>,
      <<"n", "_", "task", ".org">>,
      <<"n", "__", "task", ".org">>,
      <<"n", "__", "Task", ".org">> }

\* the keywords orgparse takes for a status: its defaults, or those a
\* #+TODO: line of the file declares
ParserKeys == { {"TODO", "DONE"}, {"OPEN", "CLOSED"} }

HeadingTexts ==
    { <<"Buy milk">>,
      <<"TODO", "Buy milk">>,
      <<"DONE", "Buy milk">>,
      <<"CANCELLED", "Buy milk">> }

ScanToday == 0
NoDate == 0 - 1

\* the SCHEDULED and DEADLINE dates of a heading's body
BodyDates ==
    { [scheduled |-> NoDate, deadline |-> NoDate],
      [scheduled |-> ScanToday, deadline |-> NoDate],
      [scheduled |-> ScanToday + 1, deadline |-> NoDate],
      [scheduled |-> NoDate, deadline |-> ScanToday] }

NodeLevels == 1..2

NoTodo == "-"
TodoLists == {"ACTIVE", "NEXT", "TODO", "WAIT"}

EmptyAgenda ==
    [schedules_today |-> <<>>, deadlines_today |-> <<>>,
     todos |-> [k \in TodoLists |-> <<>>], processed_items |-> {}]

\* "__task" in file_path.name or "_task" in file_path.name
name_has_task(name) ==
    \E k \in 1..(Len(name) - 1) : name[k] \in {"_", "__"} /\ name[k + 1] = "task"

\* str.lower() of a word of a file name
Lower(w) == IF w = "Task" THEN "task" ELSE w

has_task_filetag(name) ==
    \E k \in 1..Len(name) : \E j \in (k + 1)..Len(name) :
        name[k] = "__" /\ Lower(name[j]) = "task"

\* content_sections: the body of the last heading line with this text
HasSection(nodes, text) == \E j \in DOMAIN nodes : nodes[j].text = text

content_sections(nodes, text) ==
    LET last == CHOOSE j \in DOMAIN nodes :
                    /\ nodes[j].text = text
                    /\ \A k \in DOMAIN nodes : nodes[k].text = text => k <= j
    IN nodes[last].body

\* orgparse: node.todo and node.heading of a heading line
node_todo(node, keys) ==
    IF Len(node.text) >= 2 /\ node.text[1] \in keys THEN node.text[1] ELSE NoTodo

node_heading(node, keys) ==
    IF node_todo(node, keys) # NoTodo THEN Tail(node.text) ELSE node.text

\* re.match(r"^(ACTIVE|NEXT|TODO|WAIT|DONE)\s+", node.heading)
todo_match(heading) ==
    Len(heading) >= 2 /\ heading[1] \in {"ACTIVE", "NEXT", "TODO", "WAIT", "DONE"}

todo_keyword(node, keys) ==
    IF node_todo(node, keys) # NoTodo THEN node_todo(node, keys)
    ELSE IF todo_match(node_heading(node, keys)) THEN node_heading(node, keys)[1]
    ELSE NoTodo

original_heading(node, keys) ==
    IF node_todo(node, keys) = NoTodo /\ todo_match(node_heading(node, keys))
    THEN Tail(node_heading(node, keys))
    ELSE node_heading(node, keys)

\* content_sections.get(original_heading, content_sections.get(node.heading, ""))
heading_content(nodes, node, keys) ==
    IF HasSection(nodes, original_heading(node, keys))
    THEN content_sections(nodes, original_heading(node, keys))
    ELSE IF HasSection(nodes, node_heading(node, keys))
    THEN content_sections(nodes, node_heading(node, keys))
    ELSE [scheduled |-> NoDate, deadline |-> NoDate]

item_data(file, node, is_task_file) ==
    [title |-> original_heading(node, file.keys),
     file_name |-> file.name,
     todo_keyword |-> todo_keyword(node, file.keys),
     scheduled |-> heading_content(file.nodes, node, file.keys).scheduled,
     deadline |-> heading_content(file.nodes, node, file.keys).deadline,
     is_task_file |-> is_task_file]

\* the three "if item_id not in processed_items" blocks of walk_nodes
AddScheduled(acc, item, today) ==
    LET item_id == <<"schedule", item.file_name, item.title>>
    IN IF item.scheduled # NoDate /\ item.scheduled = today
          /\ item_id \notin acc.processed_items
       THEN [acc EXCEPT !.processed_items = @ \cup {item_id},
                        !.schedules_today = Append(@, item)]
       ELSE acc

AddDeadline(acc, item, today) ==
    LET item_id == <<"deadline", item.file_name, item.title>>
    IN IF item.deadline # NoDate /\ item.deadline = today
          /\ item_id \notin acc.processed_items
       THEN [acc EXCEPT !.processed_items = @ \cup {item_id},
                        !.deadlines_today = Append(@, item)]
       ELSE acc

AddTodo(acc, item, allowed) ==
    LET item_id == <<"todo", item.file_name, item.todo_keyword, item.title>>
    IN IF item.todo_keyword \in TodoLists /\ allowed
          /\ item_id \notin acc.processed_items
       THEN [acc EXCEPT !.processed_items = @ \cup {item_id},
                        !.todos[item.todo_keyword] = Append(@, item)]
       ELSE acc

\* the body of walk_nodes for one node; task_only selects the variant
VisitNode(acc, file, node, today, task_only) ==
    LET is_task_file == IF task_only THEN has_task_filetag(file.name)
                        ELSE name_has_task(file.name)
        item == item_data(file, node, is_task_file)
    IN AddTodo(AddDeadline(AddScheduled(acc, item, today), item, today),
               item, (~task_only) \/ is_task_file)

\* the tree orgparse builds: the parent of heading j is the nearest earlier
\* heading with fewer markers, or the root (0)
ParentOf(nodes, j) ==
    LET up == {i \in 1..(j - 1) : nodes[i].level < nodes[j].level}
    IN IF up = {} THEN 0 ELSE CHOOSE i \in up : \A k \in up : k <= i

\* node.children, in document order, as the indexes after `from`
RECURSIVE ChildrenOf(_, _, _)
ChildrenOf(nodes, p, from) ==
    IF from > Len(nodes) THEN <<>>
    ELSE IF ParentOf(nodes, from) = p
    THEN <<from>> \o ChildrenOf(nodes, p, from + 1)
    ELSE ChildrenOf(nodes, p, from + 1)

\* walk_nodes(node) for each node of a list of children
RECURSIVE walk_nodes(_, _, _, _, _)
walk_nodes(acc, file, children, today, task_only) ==
    IF children = <<>> THEN acc
    ELSE LET j == Head(children)
             visited == VisitNode(acc, file, file.nodes[j], today, task_only)
             below == walk_nodes(visited, file, ChildrenOf(file.nodes, j, j + 1),
                                 today, task_only)
         IN walk_nodes(below, file, Tail(children), today, task_only)

\* one iteration of "for file_path in org_files": a file that cannot be read
\* or parsed raises before anything is appended, and the except skips it
ParseFile_empties(acc, file, today, task_only) ==
    IF file.broken THEN EmptyAgenda
    ELSE walk_nodes([acc EXCEPT !.processed_items = {}], file,
                    ChildrenOf(file.nodes, 0, 1), today, task_only)

ParseFile(acc, file, today, task_only) ==
    IF file.broken THEN acc
    ELSE walk_nodes([acc EXCEPT !.processed_items = {}], file,
                    ChildrenOf(file.nodes, 0, 1), today, task_only)

RECURSIVE ParseFiles(_, _, _, _)
ParseFiles(acc, files, today, task_only) ==
    IF files = <<>> THEN acc
    ELSE ParseFiles(ParseFile(acc, Head(files), today, task_only), Tail(files),
                    today, task_only)

\* what the caller gets: the three buckets
Buckets(acc) ==
    [schedules_today |-> acc.schedules_today,
     deadlines_today |-> acc.deadlines_today,
     todos |-> acc.todos]

agenda_items(files, today) == Buckets(ParseFiles(EmptyAgenda, files, today, FALSE))

parse_org_agenda_items_task_only(files, today) ==
    Buckets(ParseFiles(EmptyAgenda, files, today, TRUE))

CountNodes(files) ==
    IF files = <<>> THEN 0
    ELSE IF Len(files) = 1 THEN Len(files[1].nodes)
    ELSE IF Len(files) = 2 THEN Len(files[1].nodes) + Len(files[2].nodes)
    ELSE Len(files[1].nodes) + Len(files[2].nodes) + Len(files[3].nodes)

InitScan ==
    /\ IdleBot
    /\ IdleLadder
    /\ doc = <<>>
    /\ found = NoCall
    /\ edit = NoEdit
    /\ folder = <<>>
    /\ scan = [ran |-> FALSE]

\* a file appears in the directory; the content of one that cannot be read
\* plays no part, so it is not varied
NewFile(name, keys, broken) ==
    /\ ~scan.ran
    /\ broken => keys = {"TODO", "DONE"}
    /\ Len(folder) < MaxFiles
    /\ \A k \in DOMAIN folder : folder[k].name # name
    /\ folder' = Append(folder, [name |-> name, keys |-> keys, broken |-> broken,
                                 nodes |-> <<>>])
    /\ UNCHANGED <<scan, botVars, ladderVars, doc, found, edit>>

\* a heading with its body is appended to the newest file; a file starts
\* with a heading of level 1
NewNode(text, level, body) ==
    /\ ~scan.ran
    /\ folder # <<>>
    /\ ~folder[Len(folder)].broken
    /\ folder[Len(folder)].nodes = <<>> => level = 1
    /\ CountNodes(folder) < MaxNodes
    /\ folder' = [folder EXCEPT ![Len(folder)].nodes =
                      Append(@, [text |-> text, level |-> level, body |-> body])]
    /\ UNCHANGED <<scan, botVars, ladderVars, doc, found, edit>>

\* both extractions run on the directory, on the same day
Extract ==
    /\ ~scan.ran
    /\ scan' = [ran |-> TRUE,
                full |-> agenda_items(folder, ScanToday),
                task |-> parse_org_agenda_items_task_only(folder, ScanToday)]
    /\ UNCHANGED <<folder, botVars, ladderVars, doc, found, edit>>

NextScan ==
    \/ \E name \in FileNames, keys \in ParserKeys, broken \in BOOLEAN :
          NewFile(name, keys, broken)
    \/ \E text \in HeadingTexts, level \in NodeLevels, body \in BodyDates :
          NewNode(text, level, body)
    \/ Extract

SpecScan == InitScan /\ [][NextScan]_vars

----------------------------------------------------------------------------
(* The claims *)

Broadcasts == BagToSet(sendCount)
Threshold(r) == r.kind \in {"schedule", "deadline"}
LoopPoll(e) == e.op \in {"agenda", "watch"}
EvCasts == {ev.casts[n] : n \in DOMAIN ev.casts}
TaskOf(e) == IF e.op = "agenda" THEN agendaTask[e.task] ELSE watchTask[e.task]

\* C1: a threshold notification key is broadcast at most once in the life of
\* the process, and a poll broadcasts nothing for a key that it finds in
\* sent_notifications.
C1_Once ==
    \A r \in Broadcasts : Threshold(r) =>
        /\ CopiesIn(r, sendCount) = 1
        /\ \A q \in Broadcasts : q.key = r.key => q = r

C1_Step ==
    \A n \in DOMAIN ev'.casts :
        ev' # ev /\ Threshold(ev'.casts[n]) => ev'.casts[n].key \notin sent_notifications

\* C1: each key is broadcast at most once (C1_Once, always) and no poll step
\* broadcasts a key already recorded (C1_Step, every step).
C1_BroadcastOncePerKey == []C1_Once /\ [][C1_Step]_vars

\* a poll one minute after an error backoff finds the key of g.org's deadline
\* notification recorded and broadcasts nothing
C1_Witness ==
    /\ ev.op = "watch" /\ ev.inWindow /\ ~ev.err /\ ev.casts = <<>>
    /\ (ev.at - boot) % WatchSleep = Backoff
    /\ dir[2].deadline = Today(ev.at)
    /\ DeadlineBucket((DeadlineClock - TimeOfDay(ev.at)) * 60) = "today"
    /\ \E r \in Broadcasts : r.kind = "deadline" /\ r.file = Files[2]
                             /\ r.key \in sent_notifications

\* C2: when the send to one subscriber raises, every other subscriber of the
\* set is still sent the message.
C2_BroadcastIsolation ==
    \A c \in EvCasts : c.bad # NoOne => c.got = c.to \ {c.bad}

\* C3 as amended: the ladder maps total_minutes m to "2h" exactly when
\* 90 <= m <= 120, "90m" when 60 <= m < 90, "1h" when 45 <= m < 60, "45m" when
\* 30 <= m < 45, "30m" when 15 <= m < 30, "15m" when 0 <= m < 15, and to no
\* bucket exactly when m < 0 or m > 120.
C3_LadderClosedAt120 ==
    picked # "unset" =>
        /\ picked = "2h" <=> (90 * 60 <= seconds /\ seconds <= 120 * 60)
        /\ picked = "90m" <=> (60 * 60 <= seconds /\ seconds < 90 * 60)
        /\ picked = "1h" <=> (45 * 60 <= seconds /\ seconds < 60 * 60)
        /\ picked = "45m" <=> (30 * 60 <= seconds /\ seconds < 45 * 60)
        /\ picked = "30m" <=> (15 * 60 <= seconds /\ seconds < 30 * 60)
        /\ picked = "15m" <=> (0 <= seconds /\ seconds < 15 * 60)
        /\ picked = "none" <=> (seconds < 0 \/ seconds > 120 * 60)

\* C3 as claimed: "2h" exactly when 90 <= m < 120, and no bucket for m = 120.
C3_LadderAsClaimed ==
    picked # "unset" =>
        /\ picked = "2h" <=> (90 * 60 <= seconds /\ seconds < 120 * 60)
        /\ picked = "none" <=> (seconds < 0 \/ seconds >= 120 * 60)

C3_Witness == picked = "2h" /\ seconds = 120 * 60

\* C4: for every total_minutes in [0, 120) exactly one rung of the ladder
\* holds, and its key is the one selected.
BucketKeys == {"2h", "90m", "1h", "45m", "30m", "15m"}

Rung(k, s) ==
    CASE k = "2h" -> In2h(s)
      [] k = "90m" -> In90m(s)
      [] k = "1h" -> In1h(s)
      [] k = "45m" -> In45m(s)
      [] k = "30m" -> In30m(s)
      [] k = "15m" -> In15m(s)

\* C4: in [0, 120) minutes exactly one rung holds, the selected one.
C4_ExactlyOneBucket ==
    (picked # "unset" /\ 0 <= seconds /\ seconds < 120 * 60) =>
        /\ picked \in BucketKeys
        /\ {k \in BucketKeys : Rung(k, seconds)} = {picked}

C4_Witness == picked = "1h" /\ seconds = 45 * 60

\* C5: the agenda loop broadcasts only inside the window and only if
\* last_agenda_sent is unset or at least 2 hours old, then sets last_agenda_sent
\* to the poll's time; two automatic agenda broadcasts are never less than
\* 2 hours apart; a poll inside the window with last_agenda_sent unset
\* broadcasts (unless the extraction raises, which is C7's case).
AgendaSends(bag) ==
    CopiesIn([key |-> <<"agenda">>, kind |-> "agenda", file |-> "", title |-> "",
              date |-> None, bucket |-> ""], bag)

C5_Apart == prevAgendaAt # None => last_agenda_sent - prevAgendaAt >= 2 * 60

C5_Step ==
    /\ AgendaSends(sendCount') > AgendaSends(sendCount) =>
          /\ last_agenda_sent = None \/ now - last_agenda_sent >= 2 * 60
          /\ last_agenda_sent' = now
    /\ (/\ ev' # ev /\ ev'.op = "agenda" /\ ~ev'.err
        /\ last_agenda_sent = None
        /\ notification_start <= TimeOfDay(now) /\ TimeOfDay(now) <= notification_end)
          => AgendaSends(sendCount') = AgendaSends(sendCount) + 1

C6_Step ==
    (/\ ev' # ev /\ LoopPoll(ev')
     /\ ~(notification_start <= TimeOfDay(now) /\ TimeOfDay(now) <= notification_end))
       => /\ ~ev'.extracted /\ ev'.casts = <<>>
          /\ sendCount' = sendCount
          /\ sent_notifications' = sent_notifications
          /\ last_agenda_sent' = last_agenda_sent

\* C6: every poll step outside the current window extracts and broadcasts
\* nothing.
C6_WindowGating == [][C6_Step]_vars

\* the window was moved to 07:00 by /notifications, and a poll before 08:00
\* broadcast a threshold notification
C6_Witness ==
    /\ notification_start = 7 * 60
    /\ ev.op = "watch" /\ ev.casts # <<>>
    /\ TimeOfDay(ev.at) < DefaultStart

\* C7 as claimed: after a poll in which the extraction or a send raised, the
\* loop sleeps the 60 second backoff.
C7_BackoffOnAnyError ==
    (LoopPoll(ev) /\ (ev.err \/ \E c \in EvCasts : c.bad # NoOne))
        => TaskOf(ev) = ev.at + Backoff

\* C7 as amended: no loop ever ends; after a poll whose extraction raised the
\* loop sleeps the 60 second backoff and polls again; a send that raises is
\* swallowed inside send_notification_to_subscribers, so the loop sleeps its
\* regular interval (30 or 15 minutes) and not the backoff.
C7_LoopsSurviveErrors ==
    /\ \A i \in DOMAIN agendaTask : agendaTask[i] >= now
    /\ \A i \in DOMAIN watchTask : watchTask[i] >= now
    /\ (LoopPoll(ev) /\ ev.err) => TaskOf(ev) = ev.at + Backoff
    /\ (ev.op = "agenda" /\ ~ev.err) => TaskOf(ev) = ev.at + AgendaSleep
    /\ (ev.op = "watch" /\ ~ev.err) => TaskOf(ev) = ev.at + WatchSleep

\* the watch loop polls again one minute after a poll whose extraction raised,
\* and the agenda loop is still scheduled
C7_Witness ==
    /\ ev.op = "watch" /\ ev.extracted /\ ~ev.err
    /\ (ev.at - boot) % WatchSleep = Backoff
    /\ \A i \in DOMAIN agendaTask : agendaTask[i] >= now

\* C8 as claimed: an item with unchanged file name and title is never
\* notified twice for the same bucket.
C8_IdentityIsFileAndTitle ==
    \A r, q \in Broadcasts :
        (Threshold(r) /\ Threshold(q) /\ r.file = q.file /\ r.title = q.title
         /\ r.bucket = q.bucket) => (r = q /\ CopiesIn(r, sendCount) = 1)

\* C8 as amended: two threshold broadcasts have the same key exactly when
\* they agree on file name, title, date and bucket, and an item with unchanged
\* file name, title and date is never notified twice for the same bucket.
C8_IdentityIncludesDate ==
    \A r, q \in Broadcasts : (Threshold(r) /\ Threshold(q)) =>
        /\ r.key = q.key <=> (r.file = q.file /\ r.title = q.title
                              /\ r.date = q.date /\ r.bucket = q.bucket)
        /\ CopiesIn(r, sendCount) = 1

\* the title of f.org was edited and the same bucket fired again that day
C8_Witness ==
    \E r, q \in Broadcasts :
        /\ Threshold(r) /\ Threshold(q)
        /\ r.file = q.file /\ r.bucket = q.bucket /\ r.date = q.date
        /\ r.title # q.title

\* C9: every broadcast is sent to exactly the members of the subscriber set
\* at the moment of dispatch.
C9_SentToAllAtDispatch ==
    \A c \in EvCasts : (c.got \cup ({c.bad} \ {NoOne})) = c.to

\* C10: find_heading_in_content returns (i, e) with i the first line that is
\* a heading of exactly `level` markers whose trimmed text is the label, and
\* e the first later heading line with at most `level` markers, or the line
\* count; i < e <= line count; it returns not-found only if no line matches.
C10_LocateResult ==
    found.called =>
        LET lines == SplitLines(found.content)
            hits == {i \in 0..(Len(lines) - 1) :
                        /\ MatchHeading(lines[i + 1])
                        /\ StarRun(lines[i + 1]) = found.level
                        /\ HeadingText(lines[i + 1]) = found.label}
        IN IF hits = {} THEN found.res = NotFound
           ELSE LET i == CHOOSE h \in hits : \A g \in hits : h <= g
                    ends == {j \in (i + 1)..(Len(lines) - 1) :
                                /\ MatchHeading(lines[j + 1])
                                /\ StarRun(lines[j + 1]) <= found.level}
                    e == IF ends = {} THEN Len(lines)
                         ELSE CHOOSE j \in ends : \A k \in ends : j <= k
                IN /\ found.res = <<i, e>>
                   /\ i < e /\ e <= Len(lines)

\* a heading found below the first line whose span ends before the last line
C10_Witness ==
    /\ found.called /\ found.res # NotFound
    /\ found.res[1] > 0
    /\ found.res[2] < Len(SplitLines(found.content))

----------------------------------------------------------------------------
(* The claims about the outline edits *)

EditLines == SplitLines(edit.content)
OutLines == SplitLines(edit.out)
\* the 0-based line k of a sequence of lines
At(ls, k) == ls[k + 1]
IsHeading(line, label, level) ==
    MatchHeading(line) /\ StarRun(line) = level /\ HeadingText(line) = label
Carried(label, level) ==
    \E k \in 0..(Len(EditLines) - 1) : IsHeading(At(EditLines, k), label, level)
\* the lines a non-blank body contributes: a blank line and the body's lines
BodyCount == IF HasText(edit.body) THEN 1 + Len(SplitLines(edit.body)) ELSE 0

\* C11: a replace that locates the old heading at (i, e) returns the lines
\* before i, the heading line of `level` markers and the new label, for a
\* non-blank body a blank line and the body's lines, then the lines from e on;
\* nothing of the old span i..e-1 is kept.
C11_DestructiveReplace ==
    (edit.op = "replace" /\ Carried(edit.label, edit.level)) =>
        LET pos == find_heading_in_content(edit.content, edit.label, edit.level)
            i == pos[1]
            e == pos[2]
            body == SplitLines(edit.body)
        IN /\ Len(OutLines) = i + 1 + BodyCount + (Len(EditLines) - e)
           /\ \A k \in 0..(i - 1) : At(OutLines, k) = At(EditLines, k)
           /\ At(OutLines, i) = Stars(edit.level) \o <<" ">> \o edit.new
           /\ BodyCount > 0 =>
                 /\ At(OutLines, i + 1) = <<>>
                 /\ \A b \in 0..(Len(body) - 1) : At(OutLines, i + 2 + b) = At(body, b)
           /\ \A k \in e..(Len(EditLines) - 1) :
                 At(OutLines, i + 1 + BodyCount + (k - e)) = At(EditLines, k)

\* a heading with a nested sub-heading and a following sibling is replaced
\* with a non-blank body
C11_Witness ==
    /\ edit.op = "replace" /\ Carried(edit.label, edit.level)
    /\ HasText(edit.body)
    /\ LET pos == find_heading_in_content(edit.content, edit.label, edit.level)
       IN /\ pos[2] < Len(EditLines)
          /\ \E k \in (pos[1] + 1)..(pos[2] - 1) : MatchHeading(At(EditLines, k))
          /\ Len(OutLines) < Len(EditLines) + BodyCount

\* C12: a replace whose old label no heading of the level carries, and an
\* insert whose non-empty parent label no heading of the parent level
\* carries, return the text unchanged.
C12_NotFoundIsNoOp ==
    /\ (edit.op = "replace" /\ ~Carried(edit.label, edit.level)) => edit.out = edit.content
    /\ (edit.op = "insert" /\ edit.label # <<>> /\ ~Carried(edit.label, edit.plevel))
          => edit.out = edit.content

\* an insert under a label that a heading of another level carries
C12_Witness ==
    /\ edit.op = "insert" /\ edit.label # <<>>
    /\ ~Carried(edit.label, edit.plevel)
    /\ \E lv \in 1..3 : Carried(edit.label, lv)
    /\ edit.out = edit.content

\* the insertion point of an insert that is carried out
Inserted ==
    /\ edit.op = "insert"
    /\ edit.label # <<>> => Carried(edit.label, edit.plevel)
InsertPoint ==
    IF edit.label # <<>>
    THEN find_heading_in_content(edit.content, edit.label, edit.plevel)[2]
    ELSE Len(EditLines)
SepCount ==
    IF InsertPoint > 0 /\ Strip(At(EditLines, InsertPoint - 1)) # <<>> THEN 1 ELSE 0

\* C13: after an insert every heading line before the insertion point keeps
\* its index and text, and every heading line at or after it keeps its text
\* and moves down by the number of inserted lines: the separator if any, the
\* heading line, and for a non-blank body a blank line and the body's lines.
C13_InsertKeepsStructure ==
    Inserted =>
        LET n == SepCount + 1 + BodyCount
        IN /\ Len(OutLines) = Len(EditLines) + n
           /\ \A k \in 0..(Len(EditLines) - 1) : MatchHeading(At(EditLines, k)) =>
                 IF k < InsertPoint THEN At(OutLines, k) = At(EditLines, k)
                 ELSE At(OutLines, k + n) = At(EditLines, k)

\* a heading after the insertion point moved down by three lines or more
C13_Witness ==
    /\ Inserted /\ edit.label # <<>>
    /\ InsertPoint < Len(EditLines)
    /\ MatchHeading(At(EditLines, InsertPoint))
    /\ Len(OutLines) >= Len(EditLines) + 3

\* C14: insert with text "* A\n", no parent, new label "B", empty body and
\* level 1 returns "* A\n* B\n".
C14_InsertAtEndExample ==
    (/\ edit.op = "insert"
     /\ edit.content = <<"*", " ", "A", "\n">>
     /\ edit.label = <<>> /\ edit.new = <<"B">> /\ edit.body = <<>> /\ edit.level = 1)
        => edit.out = <<"*", " ", "A", "\n", "*", " ", "B", "\n">>

\* C15: an insert under a parent located at (i, e) keeps the lines before e,
\* puts a blank line at e exactly when line e - 1 is non-blank, then the new
\* heading line, and the line that was at e follows the inserted lines; for
\* new_level > parent_level a locate of the parent in the result reports a
\* span that contains the new heading line.
C15_InsertAsLastChild ==
    (Inserted /\ edit.label # <<>>) =>
        LET pos == find_heading_in_content(edit.content, edit.label, edit.plevel)
            e == pos[2]
            h == e + SepCount
            after == find_heading_in_content(edit.out, edit.label, edit.plevel)
        IN /\ \A k \in 0..(e - 1) : At(OutLines, k) = At(EditLines, k)
           /\ SepCount = 1 => At(OutLines, e) = <<>>
           /\ At(OutLines, h) = Stars(edit.level) \o <<" ">> \o edit.new
           /\ e < Len(EditLines) => At(OutLines, h + 1 + BodyCount) = At(EditLines, e)
           /\ e = Len(EditLines) => Len(OutLines) = h + 1 + BodyCount
           /\ edit.level > edit.plevel =>
                 /\ after # NotFound
                 /\ after[1] = pos[1]
                 /\ after[1] < h /\ h < after[2]

\* a deeper heading is inserted with a separator before the parent's sibling
C15_Witness ==
    /\ Inserted /\ edit.label # <<>>
    /\ edit.level > edit.plevel
    /\ SepCount = 1
    /\ InsertPoint < Len(EditLines)

\* C16: replace(text, L, L, "", level) on a text that has the heading
\* (L, level), then locate (L, level): the heading is found, its body end is
\* its line + 1 and get_heading_content is empty.
C16_ReplaceEmptyThenLocate ==
    (/\ edit.op = "replace" /\ Carried(edit.label, edit.level)
     /\ edit.new = edit.label /\ edit.body = <<>>)
        => LET after == find_heading_in_content(edit.out, edit.label, edit.level)
           IN /\ after # NotFound
              /\ after[2] = after[1] + 1
              /\ get_heading_content(edit.out, edit.label, edit.level) = <<>>

----------------------------------------------------------------------------
(* The claims about the agenda extraction *)

TodayOnly == [scheduled |-> ScanToday, deadline |-> NoDate]
\* every item of the three buckets of an extraction result
ItemsOf(res) ==
    {res.schedules_today[n] : n \in DOMAIN res.schedules_today}
    \cup {res.deadlines_today[n] : n \in DOMAIN res.deadlines_today}
    \cup UNION {{res.todos[k][n] : n \in DOMAIN res.todos[k]} : k \in TodoLists}

\* C17: for the document "* TODO Buy milk" with body "SCHEDULED: <D>" and
\* today = D, scheduled_today holds exactly one item, titled "Buy milk", and
\* todos.TODO holds the same item, whether the parser supplies the status or
\* it is matched from the heading text.
C17_TodoScheduledToday ==
    (/\ scan.ran
     /\ Len(folder) = 1 /\ ~folder[1].broken
     /\ folder[1].nodes = <<[text |-> <<"TODO", "Buy milk">>, level |-> 1,
                             body |-> TodayOnly]>>)
        => /\ Len(scan.full.schedules_today) = 1
           /\ scan.full.schedules_today[1].title = <<"Buy milk">>
           /\ scan.full.todos["TODO"] = scan.full.schedules_today

\* a heading whose leading word is DONE or another word that is none of
\* ACTIVE, NEXT, TODO, WAIT
ExcludedStatus(node) == Len(node.text) >= 2 /\ node.text[1] \notin TodoLists

\* the item is the one of a heading of the file whose status is not excluded
FromIncluded(item, file) ==
    \E j \in DOMAIN file.nodes :
        LET node == file.nodes[j]
        IN /\ ~ExcludedStatus(node)
           /\ IF Len(node.text) >= 2
              THEN item.title = Tail(node.text) /\ item.todo_keyword = node.text[1]
              ELSE item.title = node.text /\ item.todo_keyword = NoTodo

\* C18: a heading whose status is DONE or an unrecognized keyword is in none
\* of the buckets, even with a SCHEDULED or DEADLINE date of today: every
\* item of every bucket is the item of a heading with another status or none.
C18_DoneExcluded ==
    scan.ran =>
        \A item \in ItemsOf(scan.full) : \A k \in DOMAIN folder :
            item.file_name = folder[k].name => FromIncluded(item, folder[k])

\* C19: with files that cannot be read or parsed in the directory, both
\* extractions return exactly what they return on the directory without
\* those files.
C19_FileFailureIsolated ==
    scan.ran =>
        LET readable == SelectSeq(folder, LAMBDA f : ~f.broken)
        IN /\ scan.full = agenda_items(readable, ScanToday)
           /\ scan.task = parse_org_agenda_items_task_only(readable, ScanToday)

\* a file that cannot be read follows a file that contributed an item
C19_Witness ==
    /\ scan.ran
    /\ Len(folder) = 2 /\ ~folder[1].broken /\ folder[2].broken
    /\ scan.full.schedules_today # <<>>
    /\ scan.task.schedules_today # <<>>

\* C20: on the same directory and day the two variants return the same
\* scheduled_today and deadline_today items, and the task-only todos are
\* the full variant's todos of the files whose name has a "task" segment
\* after a double underscore, every item with the same attributes.
C20_VariantsAgree ==
    scan.ran =>
        /\ scan.task.schedules_today = scan.full.schedules_today
        /\ scan.task.deadlines_today = scan.full.deadlines_today
        /\ \A k \in TodoLists :
              scan.task.todos[k] =
                  SelectSeq(scan.full.todos[k],
                            LAMBDA item : has_task_filetag(item.file_name))

----------------------------------------------------------------------------
(* message and handle_command with their replies: who may change what.     *)
(* Time stands still; ev holds the sender and the type of the last message *)
(* and the reply to it.                                                    *)

MaxGateInputs == 2   \* session starts and messages that change the bot's state

\* msg["from"]: a bare JID and a resource, "" for none
Senders ==
    {[bare |-> j, resource |-> ""] : j \in JIDs} \cup {[bare |-> "ann", resource |-> "phone"]}

\* str(msg["from"]).split("/")[0]
Bare(from) == from.bare

MsgTypes == {"chat", "normal", "groupchat"}

Plain == [cmd |-> FALSE, name |-> "", args |-> <<>>]
Command(name, args) == [cmd |-> TRUE, name |-> name, args |-> args]

\* msg["body"]: plain text, "/", and commands with their arguments
MsgBodies ==
    {Plain, Command("", <<>>), Command("ping", <<>>), Command("dance", <<>>),
     Command("subscribe", <<>>), Command("unsubscribe", <<>>),
     Command("test-notification", <<>>),
     Command("notifications", <<>>), Command("notifications", <<"22:00", "07:00">>),
     Command("notifications", <<"07:00", "7pm">>),
     Command("whitelist", <<>>), Command("whitelist", <<"add">>),
     Command("whitelist", <<"add", "eve">>), Command("whitelist", <<"remove", "ann">>),
     Command("whitelist", <<"purge", "ann">>)}

\* what load_whitelist and load_subscribers can return: the sets of the two
\* files, or the empty set when the file is missing or unreadable
LoadedWhitelists == {{}, {"ann"}, {"ann", "bob"}}
LoadedSubscribers == {{}, {"ann"}}

NoReply == "-"
Denied == "Access denied. You are not authorized to use this bot."

\* datetime.strptime(arg, "%H:%M").time(), or the ValueError
strptime(arg) ==
    CASE arg = "07:00" -> 7 * 60
      [] arg = "22:00" -> 22 * 60
      [] OTHER -> Malformed

\* the fields a command can change, and the reply
Fields ==
    [whitelist |-> whitelist, subscribers |-> subscribers,
     notification_start |-> notification_start, notification_end |-> notification_end,
     testTask |-> testTask, reply |-> NoReply]

Reply(st, text) == [st EXCEPT !.reply = text]

Subscribed(st, sender) ==
    IF sender \notin st.subscribers
    THEN Reply([st EXCEPT !.subscribers = @ \cup {sender}],
               "Successfully subscribed to notifications.")
    ELSE Reply(st, "You are already subscribed to notifications.")

Unsubscribed(st, sender) ==
    IF sender \in st.subscribers
    THEN Reply([st EXCEPT !.subscribers = @ \ {sender}],
               "Successfully unsubscribed from notifications.")
    ELSE Reply(st, "You are not subscribed to notifications.")

WindowSet(st, args) ==
    IF Len(args) >= 2
    THEN IF strptime(args[1]) # Malformed /\ strptime(args[2]) # Malformed
         THEN Reply([st EXCEPT !.notification_start = strptime(args[1]),
                               !.notification_end = strptime(args[2])],
                    "Notification hours set")
         ELSE Reply(st, "Invalid time format. Use: /notifications HH:MM HH:MM")
    ELSE Reply(st, "Current notification hours")

TestScheduled(st, sender) ==
    IF sender \in st.subscribers
    THEN Reply(IF loop
               THEN [st EXCEPT !.testTask =
                        Append(@, [wake |-> now + TestDelay, by |-> sender,
                                   then |-> st.subscribers])]
               ELSE st,
               "Test notification scheduled to be sent in 1 minute.")
    ELSE Reply(st, "You must be subscribed to receive test notifications.")

\* admin_jids = {sender}: the admin check passes for every sender
cmd_whitelist(st, args, sender) ==
    IF sender \notin {sender} THEN Reply(st, "Access denied. Admin privileges required.")
    ELSE IF args = <<>> THEN Reply(st, "Whitelisted users")
    ELSE IF Len(args) < 2 THEN Reply(st, "Usage: /whitelist [add|remove] <jid>")
    ELSE IF args[1] = "add"
         THEN Reply([st EXCEPT !.whitelist = @ \cup {args[2]}], "Added to whitelist.")
    ELSE IF args[1] = "remove"
         THEN IF args[2] \in st.whitelist
              THEN Reply([st EXCEPT !.whitelist = @ \ {args[2]}], "Removed from whitelist.")
              ELSE Reply(st, "is not in whitelist.")
    ELSE Reply(st, "Usage: /whitelist [add|remove] <jid>")

handle_command(st, command, sender) ==
    CASE command.name = "" -> Reply(st, "Unknown command")
      [] command.name = "ping" -> Reply(st, "Pong")
      [] command.name = "notifications" -> WindowSet(st, command.args)
      [] command.name = "subscribe" -> Subscribed(st, sender)
      [] command.name = "unsubscribe" -> Unsubscribed(st, sender)
      [] command.name = "whitelist" -> cmd_whitelist(st, command.args, sender)
      [] command.name = "test-notification" -> TestScheduled(st, sender)
      [] OTHER -> Reply(st, "Unknown command: ")

Received(from, type, reply) ==
    [op |-> "message", from |-> from, type |-> type, reply |-> reply]

\* the message handler: the type test, the whitelist test, then the command
\* or the echo
message(from, type, body) ==
    LET sender == Bare(from)
        st == IF type \notin {"chat", "normal"} THEN Fields
              ELSE IF ~is_whitelisted(sender) THEN Reply(Fields, Denied)
              ELSE IF body.cmd THEN handle_command(Fields, body, sender)
              ELSE Reply(Fields, "Thanks for sending: ")
        changed == [st EXCEPT !.reply = NoReply] # Fields
    IN /\ changed => inputs < MaxGateInputs
       /\ inputs' = IF changed THEN inputs + 1 ELSE inputs
       /\ whitelist' = st.whitelist
       /\ subscribers' = st.subscribers
       /\ notification_start' = st.notification_start
       /\ notification_end' = st.notification_end
       /\ testTask' = st.testTask
       /\ ev' = Received(from, type, st.reply)
       /\ UNCHANGED <<now, sent_notifications, last_agenda_sent, loop, agendaTask,
                      watchTask, dir, sendCount, prevAgendaAt, boot,
                      ladderVars, outlineVars, scanVars>>

InitGate ==
    /\ now = DefaultStart
    /\ whitelist \in LoadedWhitelists
    /\ subscribers \in LoadedSubscribers
    /\ notification_start = DefaultStart
    /\ notification_end = DefaultEnd
    /\ sent_notifications = {}
    /\ last_agenda_sent = None
    /\ loop = FALSE
    /\ agendaTask = <<>>
    /\ watchTask = <<>>
    /\ testTask = <<>>
    /\ dir = [i \in 1..Len(Files) |->
                [title |-> "A", scheduled |-> 0, deadline |-> 0]]
    /\ inputs = 0
    /\ ev = NoEvent
    /\ sendCount = EmptyBag
    /\ prevAgendaAt = None
    /\ boot = now
    /\ IdleLadder /\ IdleOutline

NextGate ==
    \/ session_start(MaxGateInputs)
    \/ \E from \in Senders, type \in MsgTypes, body \in MsgBodies : message(from, type, body)

SpecGate == InitGate /\ [][NextGate]_vars

----------------------------------------------------------------------------
(* The claims about the running bot: several task pairs, lost broadcasts,  *)
(* the window and the whitelist                                            *)

\* every task that was started is still scheduled
AllAlive(tasks) == \A i \in DOMAIN tasks : tasks[i] >= now

C21_Always ==
    /\ AllAlive(agendaTask) /\ AllAlive(watchTask)
    /\ Len(agendaTask) = Len(watchTask)
    /\ \A r \in Broadcasts : Threshold(r) =>
          (CopiesIn(r, sendCount) = 1 /\ r.key \in sent_notifications)
    /\ prevAgendaAt # None => last_agenda_sent - prevAgendaAt >= agenda_interval * 60

C21_Step ==
    /\ (ev' = ev /\ <<agendaTask, watchTask>>' # <<agendaTask, watchTask>>)
          => /\ agendaTask' = Append(agendaTask, now)
             /\ watchTask' = Append(watchTask, now)
    /\ (ev' # ev /\ LoopPoll(ev')) =>
          /\ Len(agendaTask') = Len(agendaTask) /\ Len(watchTask') = Len(watchTask)
          /\ \A n \in DOMAIN ev'.casts :
                LET c == ev'.casts[n]
                IN IF Threshold(c)
                   THEN c.key \notin sent_notifications /\ c.key \in sent_notifications'
                   ELSE last_agenda_sent' = now

\* C21: a session_start adds one agenda task and one watch task and leaves
\* the earlier ones running; however many task pairs run, no threshold key is
\* broadcast twice and two agenda broadcasts are at least agenda_interval
\* apart, every poll testing, broadcasting and recording in one step.
C21_TasksAccumulate == []C21_Always /\ [][C21_Step]_vars

\* two task pairs: the second watch task polled inside the window and found
\* the key of the bucket recorded by the first, and both agenda tasks polled
\* after the one agenda broadcast
C21_Witness ==
    /\ Len(watchTask) >= 2 /\ Len(agendaTask) >= 2
    /\ ev.op = "watch" /\ ev.task = 2 /\ ev.inWindow /\ ~ev.err /\ ev.casts = <<>>
    /\ \E r \in Broadcasts :
          /\ r.kind = "schedule" /\ r.date = Today(ev.at)
          /\ r.bucket = ScheduleBucket((ScheduleClock - TimeOfDay(ev.at)) * 60)
          /\ r.key \in sent_notifications
    /\ AgendaSends(sendCount) = 1
    /\ \A i \in DOMAIN agendaTask : agendaTask[i] > last_agenda_sent

\* a broadcast that reached no one: the subscriber set was empty, or the
\* first send raised
Unheard(c) == c.got = {} /\ (c.to = {} \/ c.bad # NoOne)

C22_Step ==
    /\ sent_notifications \subseteq sent_notifications'
    /\ ev' # ev =>
          \A n \in DOMAIN ev'.casts :
              LET c == ev'.casts[n]
              IN /\ (Unheard(c) /\ Threshold(c)) => c.key \in sent_notifications'
                 /\ (Unheard(c) /\ c.kind = "agenda") => last_agenda_sent' = now
                 /\ Threshold(c) => c.key \notin sent_notifications

\* C22: a threshold broadcast that reaches no one (empty subscriber set, or
\* a send that raises and is swallowed) still records its key, and an agenda
\* broadcast that reaches no one still sets last_agenda_sent; a recorded key
\* is never removed and never broadcast again, so whoever subscribes later
\* is not sent that notification.
C22_RecordedThoughUnheard == [][C22_Step]_vars

\* a watch poll broadcast to an empty subscriber set and recorded the key,
\* and bob subscribed after it
C22_Witness ==
    /\ ev.op = "watch"
    /\ \E c \in EvCasts : c.to = {} /\ Unheard(c) /\ c.key \in sent_notifications
    /\ "bob" \in subscribers

DefaultWindow == notification_start = DefaultStart /\ notification_end = DefaultEnd

C23_Never ==
    DefaultWindow => \A r \in Broadcasts : r.kind = "schedule" => r.bucket # "2h"

C23_Step ==
    (ev' # ev /\ ev'.op = "watch" /\ DefaultWindow) =>
        \A n \in DOMAIN ev'.casts :
            LET c == ev'.casts[n]
                total_minutes == (c.date * DayMinutes + 9 * 60) - now
            IN c.kind = "schedule" =>
                 /\ DefaultStart <= TimeOfDay(now) /\ TimeOfDay(now) <= DefaultEnd
                 /\ total_minutes <= 60
                 /\ c.bucket # "2h"
                 /\ c.bucket = "90m" => TimeOfDay(now) = DefaultStart

\* C23: while the window is the default 08:00-22:00, no schedule notification
\* of bucket "2h" is broadcast: every schedule broadcast happens at a poll
\* inside the window, at most 60 minutes before 09:00 of the item's date, and
\* one of bucket "90m" only at a poll at exactly 08:00.
C23_No2hInDefaultWindow == []C23_Never /\ [][C23_Step]_vars

\* a poll at exactly 08:00 in the default window broadcast bucket "90m"
C23_Witness ==
    /\ DefaultWindow
    /\ ev.op = "watch" /\ TimeOfDay(ev.at) = DefaultStart
    /\ \E c \in EvCasts : c.kind = "schedule" /\ c.bucket = "90m"

\* the windows /notifications can set from the arguments tried: both values
\* well-formed
ValidArgs == {a \in NotifArgs : a[1] # Malformed /\ a[2] # Malformed}

Inverted == notification_start > notification_end

C24_Always ==
    /\ <<notification_start, notification_end>> \in {<<DefaultStart, DefaultEnd>>} \cup ValidArgs
    /\ Inverted => \A t \in 0..(DayMinutes - 1) :
                      ~is_notification_time(t, notification_start, notification_end)

C24_Step ==
    (Inverted /\ ev' # ev /\ LoopPoll(ev')) =>
        /\ ~ev'.inWindow /\ ~ev'.extracted /\ ev'.casts = <<>>
        /\ sendCount' = sendCount
        /\ sent_notifications' = sent_notifications
        /\ last_agenda_sent' = last_agenda_sent

\* C24: /notifications sets the window to any two well-formed values, start
\* later than end included, and changes neither bound when either value is
\* malformed; while start > end, is_notification_time is false at every time
\* of day and no poll of either loop broadcasts or records anything.
C24_InvertedWindowSilences == []C24_Always /\ [][C24_Step]_vars

\* the window was set to 22:00-07:00 and an agenda poll between 08:00 and
\* 22:00, with no agenda sent yet, broadcast nothing
C24_Witness ==
    /\ notification_start = 22 * 60 /\ notification_end = 7 * 60
    /\ ev.op = "agenda" /\ ~ev.inWindow /\ ev.casts = <<>>
    /\ DefaultStart <= TimeOfDay(ev.at) /\ TimeOfDay(ev.at) <= DefaultEnd
    /\ last_agenda_sent = None

\* what the whitelist protects: subscribers, whitelist, window and tasks
Gated == <<subscribers, whitelist, notification_start, notification_end,
           testTask, agendaTask, watchTask>>

\* a step of the message handler: ev' is the message and the reply to it
MessageStep == ev'.op = "message" /\ agendaTask' = agendaTask

Outsider(e) == Bare(e.from) \notin whitelist

C25_EmptyStaysEmpty == whitelist = {} => whitelist' = {}

C25_Claimed ==
    /\ (MessageStep /\ Outsider(ev')) => (ev'.reply = Denied /\ Gated' = Gated)
    /\ C25_EmptyStaysEmpty

\* C25 as claimed: every message of a sender outside the whitelist is
\* answered with access denied and changes nothing, and an empty whitelist
\* stays empty.
C25_EveryMessageDenied == [][C25_Claimed]_vars

C25_Step ==
    /\ (MessageStep /\ Outsider(ev')) =>
          /\ ev'.reply = IF ev'.type \in {"chat", "normal"} THEN Denied ELSE NoReply
          /\ Gated' = Gated
    /\ (MessageStep /\ ev'.type \notin {"chat", "normal"}) =>
          (ev'.reply = NoReply /\ Gated' = Gated)
    /\ whitelist' # whitelist =>
          (MessageStep /\ ~Outsider(ev') /\ ev'.type \in {"chat", "normal"})
    /\ C25_EmptyStaysEmpty

\* C25 as amended: a message of type chat or normal from a sender whose bare
\* JID is not in the whitelist is answered with access denied, a message of
\* any other type is not answered at all, and neither changes subscribers,
\* whitelist, window or tasks; the whitelist changes only by a chat or normal
\* message of a whitelisted sender, so an empty whitelist stays empty.
C25_WhitelistGating == [][C25_Step]_vars

\* the whitelist was loaded empty: ann, a subscriber, wrote after the session
\* started, was denied, and is still subscribed
C25_Witness ==
    /\ whitelist = {} /\ loop
    /\ ev.op = "message" /\ ev.type = "chat" /\ Bare(ev.from) = "ann"
    /\ ev.reply = Denied
    /\ subscribers = {"ann"} /\ testTask = <<>>

====
